---- MODULE Spec2Model ----
(***************************************************************************)
(* A model of github.com/szxp/email: the EmailBuilder, its setters, its    *)
(* boundary resolution and its Write to an io.Writer.                      *)
(*                                                                         *)
(* A Go string or []byte of text is a sequence of one-character strings,   *)
(* so that searching, concatenating, sorting and splitting are done here   *)
(* character by character as the code does them.  The input of an encode   *)
(* call is a sequence of byte values 0..255.                               *)
(***************************************************************************)
EXTENDS Integers, Sequences, FiniteSets, TLC

(***************************************************************************)
(* Characters                                                              *)
(***************************************************************************)

\* The printable ASCII characters in byte order: Ascii[i] is byte 31 + i
\* (byte 96, the grave accent, is written "(96)").
Ascii == <<" ", "!", "\"", "#", "$", "%", "&", "'", "(", ")", "*", "+", ",", "-", ".", "/", "0", "1", "2", "3", "4", "5", "6", "7", "8", "9", ":", ";", "<", "=", ">", "?", "@", "A", "B", "C", "D", "E", "F", "G", "H", "I", "J", "K", "L", "M", "N", "O", "P", "Q", "R", "S", "T", "U", "V", "W", "X", "Y", "Z", "[", "\\", "]", "^", "_", "(96)", "a", "b", "c", "d", "e", "f", "g", "h", "i", "j", "k", "l", "m", "n", "o", "p", "q", "r", "s", "t", "u", "v", "w", "x", "y", "z", "{", "|", "}", "~">>

\* The byte value of every character the model uses ("\r" is 13, "\n" is
\* 10, "\t" is 9).
ByteOf ==
    [c \in {Ascii[i] : i \in 1..Len(Ascii)} \cup {"\r", "\n", "\t"} |->
        IF c = "\r" THEN 13
        ELSE IF c = "\n" THEN 10
        ELSE IF c = "\t" THEN 9
        ELSE 31 + (CHOOSE i \in 1..Len(Ascii) : Ascii[i] = c)]

Code(c) == ByteOf[c]

\* The character of a printable byte value.
Chr(n) == Ascii[n - 31]

ToUpper(c) == IF Code(c) >= 97 /\ Code(c) <= 122 THEN Chr(Code(c) - 32) ELSE c

ToLower(c) == IF Code(c) >= 65 /\ Code(c) <= 90 THEN Chr(Code(c) + 32) ELSE c

\* Go's < on strings: byte-wise lexicographic order.
RECURSIVE StrLess(_, _)
StrLess(s, t) ==
    IF Len(t) = 0 THEN FALSE
    ELSE IF Len(s) = 0 THEN TRUE
    ELSE IF Code(s[1]) < Code(t[1]) THEN TRUE
    ELSE IF Code(s[1]) > Code(t[1]) THEN FALSE
    ELSE StrLess(Tail(s), Tail(t))

\* strings.Index(s, sub): the 0-based index of the first occurrence, or -1.
Index(s, sub) ==
    LET hits == { i \in 0..(Len(s) - Len(sub)) :
                     SubSeq(s, i + 1, i + Len(sub)) = sub }
    IN  IF hits = {} THEN -1
        ELSE CHOOSE i \in hits : \A j \in hits : i <= j

\* s[i:] of Go (0-based i).
From(s, i) == SubSeq(s, i + 1, Len(s))

(***************************************************************************)
(* String constants of the program                                         *)
(***************************************************************************)

DefaultBoundary == <<"1", "1", "0", "0", "0", "0", "0", "0", "0", "0", "0", "0", "8", "6", "3", "a", "1", "7", "0", "5", "d", "d", "e", "b", "4", "f", "8", "6">>

KeyFrom == <<"F", "r", "o", "m">>

KeyMIMEVersion == <<"M", "I", "M", "E", "-", "V", "e", "r", "s", "i", "o", "n">>

KeyDate == <<"D", "a", "t", "e">>

KeyContentType == <<"C", "o", "n", "t", "e", "n", "t", "-", "T", "y", "p", "e">>

KeyContentTransferEncoding == <<"C", "o", "n", "t", "e", "n", "t", "-", "T", "r", "a", "n", "s", "f", "e", "r", "-", "E", "n", "c", "o", "d", "i", "n", "g">>

ValMIMEVersion == <<"1", ".", "0">>

ValBase64 == <<"b", "a", "s", "e", "6", "4">>

ValQuotedPrintable == <<"q", "u", "o", "t", "e", "d", "-", "p", "r", "i", "n", "t", "a", "b", "l", "e">>

TextPlainCharset == <<"t", "e", "x", "t", "/", "p", "l", "a", "i", "n", ";", " ", "c", "h", "a", "r", "s", "e", "t", "=">>

TextHTMLCharset == <<"t", "e", "x", "t", "/", "h", "t", "m", "l", ";", " ", "c", "h", "a", "r", "s", "e", "t", "=">>

Utf8 == <<"u", "t", "f", "-", "8">>

\* fmt.Sprintf(`multipart/alternative; boundary="%s"`, boundary)
MultipartContentType(boundary) ==
    <<"m", "u", "l", "t", "i", "p", "a", "r", "t", "/", "a", "l", "t", "e", "r", "n", "a", "t", "i", "v", "e", ";", " ", "b", "o", "u", "n", "d", "a", "r", "y", "=", "\"">>
        \o boundary \o <<"\"">>

pattern == <<"b", "o", "u", "n", "d", "a", "r", "y", "=", "\"">>

Quote == <<"\"">>

CRLF == <<"\r", "\n">>

ColonSpace == <<":", " ">>

Dashes == <<"-", "-">>

\* The error values: nil, the three errors of BoundaryString, and the error
\* of the sink.
Nil == "nil"

ErrBeginning == "beginning of the boundary not found in Content-Type header"

ErrEnd == "end of the boundary not found in Content-Type header"

ErrEmpty == "empty boundary in Content-Type header"

ErrSink == "sink write error"

(***************************************************************************)
(* http.Header, as the builder uses it: one value per canonical key.       *)
(***************************************************************************)

\* make(http.Header)
NewHeader == [k \in {} |-> <<>>]

\* textproto.CanonicalMIMEHeaderKey for a key of letters, digits and "-":
\* upper case at the start and after "-", lower case elsewhere.
CanonicalMIMEHeaderKey(s) ==
    [i \in 1..Len(s) |->
        IF i = 1 \/ s[i - 1] = "-" THEN ToUpper(s[i]) ELSE ToLower(s[i])]

\* h.Set(key, value)
HeaderSet(h, key, value) ==
    LET ck == CanonicalMIMEHeaderKey(key)
    IN  [k \in (DOMAIN h) \cup {ck} |-> IF k = ck THEN value ELSE h[k]]

\* h.Get(key): the value, or "" when there is none.
HeaderGet(h, key) ==
    LET ck == CanonicalMIMEHeaderKey(key)
    IN  IF ck \in DOMAIN h THEN h[ck] ELSE <<>>

\* The keys of h in the order Header.Write sorts them (by key, byte-wise).
RECURSIVE SortedKeys(_)
SortedKeys(keys) ==
    IF keys = {} THEN <<>>
    ELSE LET least == CHOOSE k \in keys : \A o \in keys \ {k} : StrLess(k, o)
         IN  <<least>> \o SortedKeys(keys \ {least})

\* textproto.TrimString: leading and trailing spaces and tabs removed.
RECURSIVE TrimString(_)
TrimString(v) ==
    IF Len(v) = 0 THEN v
    ELSE IF v[1] = " " THEN TrimString(Tail(v))
    ELSE IF v[Len(v)] = " " THEN TrimString(SubSeq(v, 1, Len(v) - 1))
    ELSE v

\* headerNewlineToSpace.Replace: "\n" and "\r" become " ".
NewlineToSpace(v) ==
    [i \in 1..Len(v) |-> IF v[i] = "\n" \/ v[i] = "\r" THEN " " ELSE v[i]]

(***************************************************************************)
(* The sink: an io.Writer.  buf is what it has accepted, calls the number  *)
(* of Write calls made on it, and the call number failAt (if any) fails,   *)
(* accepting nothing.  A writer state st is the sink together with the     *)
(* error the code holds at that point.                                     *)
(***************************************************************************)

NewSink(failAt) == [buf |-> <<>>, calls |-> 0, failAt |-> failAt, err |-> Nil]

\* _, err := w.Write(p)
SinkWrite(st, p) ==
    IF st.calls + 1 = st.failAt
    THEN [st EXCEPT !.calls = @ + 1, !.err = ErrSink]
    ELSE [st EXCEPT !.calls = @ + 1, !.buf = @ \o p]

\* A run of Write calls on the sink that goes on after a failed one.
RECURSIVE WriteAllUnchecked(_, _)
WriteAllUnchecked(st, chunks) ==
    IF chunks = <<>> THEN st
    ELSE WriteAllUnchecked(SinkWrite(st, chunks[1]), Tail(chunks))

\* The writes of b.writeln(w): "\r\n".
writeln == <<CRLF>>

\* A run of Write calls on the sink, each followed by the code's
\* `if err != nil { return err }`: the run stops at the first error, which
\* is the error returned.
RECURSIVE WriteAll(_, _)
WriteAll(st, chunks) ==
    IF chunks = <<>> \/ st.err # Nil THEN st
    ELSE WriteAll(SinkWrite(st, chunks[1]), Tail(chunks))

\* The writes of Header.Write for one header: key, ": ", the value (new lines
\* replaced, trimmed) and "\r\n".
HeaderWriteLine(key, value) ==
    <<key, ColonSpace, TrimString(NewlineToSpace(value)), CRLF>>

RECURSIVE HeaderWriteKeys(_, _)
HeaderWriteKeys(h, keys) ==
    IF keys = <<>> THEN <<>>
    ELSE HeaderWriteLine(keys[1], h[keys[1]]) \o HeaderWriteKeys(h, Tail(keys))

\* The writes of h.Write(w): every header of h, sorted by key.
HeaderWrite(h) == HeaderWriteKeys(h, SortedKeys(DOMAIN h))

(***************************************************************************)
(* The two encoders of the standard library, as the setters use them.      *)
(***************************************************************************)

\* The alphabet of base64.StdEncoding.
encodeStd == <<"A", "B", "C", "D", "E", "F", "G", "H", "I", "J", "K", "L", "M", "N", "O", "P", "Q", "R", "S", "T", "U", "V", "W", "X", "Y", "Z", "a", "b", "c", "d", "e", "f", "g", "h", "i", "j", "k", "l", "m", "n", "o", "p", "q", "r", "s", "t", "u", "v", "w", "x", "y", "z", "0", "1", "2", "3", "4", "5", "6", "7", "8", "9", "+", "/">>

\* What base64.NewEncoder(base64.StdEncoding, buf) has written to buf after
\* Write(s) and Close(): three bytes become four characters, and the last
\* one or two bytes are padded with "=".
RECURSIVE Base64Encode(_)
Base64Encode(s) ==
    IF Len(s) = 0 THEN <<>>
    ELSE IF Len(s) = 1 THEN
        << encodeStd[(s[1] \div 4) + 1],
           encodeStd[((s[1] % 4) * 16) + 1], "=", "=" >>
    ELSE IF Len(s) = 2 THEN
        << encodeStd[(s[1] \div 4) + 1],
           encodeStd[((s[1] % 4) * 16) + (s[2] \div 16) + 1],
           encodeStd[((s[2] % 16) * 4) + 1], "=" >>
    ELSE
        << encodeStd[(s[1] \div 4) + 1],
           encodeStd[((s[1] % 4) * 16) + (s[2] \div 16) + 1],
           encodeStd[((s[2] % 16) * 4) + (s[3] \div 64) + 1],
           encodeStd[(s[3] % 64) + 1] >>
        \o Base64Encode(SubSeq(s, 4, Len(s)))

upperhex == <<"0", "1", "2", "3", "4", "5", "6", "7", "8", "9", "A", "B", "C", "D", "E", "F">>

\* The line length of the quoted-printable writer.
lineMaxLen == 76

\* A character of a quoted-printable line: a byte kept as it is.
QPChar(c) == IF c = 9 THEN "\t" ELSE Chr(c)

\* quotedprintable.Writer.encode: "=XX", after a soft line break when the
\* line has no room for it.  q is [out, line, cr]: what has been flushed,
\* the line being filled, and whether the last byte was "\r".
QPEncodeByte(q, c) ==
    LET r == IF lineMaxLen - 1 - Len(q.line) < 3
             THEN [q EXCEPT !.out = @ \o q.line \o <<"=">> \o CRLF,
                            !.line = <<>>]
             ELSE q
    IN  [r EXCEPT !.line = @ \o <<"=", upperhex[(c \div 16) + 1],
                                  upperhex[(c % 16) + 1]>>]

\* quotedprintable.Writer.checkLastByte: a space or tab that ends a line is
\* encoded.
QPCheckLastByte(q) ==
    IF Len(q.line) > 0 /\ q.line[Len(q.line)] \in {" ", "\t"}
    THEN QPEncodeByte([q EXCEPT !.line = SubSeq(@, 1, Len(@) - 1)],
                      IF q.line[Len(q.line)] = " " THEN 32 ELSE 9)
    ELSE q

\* quotedprintable.Writer.Write and write, one byte: a printable byte other
\* than "=", a space and a tab are kept (after a soft line break when the
\* line is full), "\r" and "\n" make a line break, every other byte is
\* encoded.
QPWriteByte(q, c) ==
    IF (c >= 33 /\ c <= 126 /\ c # 61) \/ c = 32 \/ c = 9
    THEN LET r == IF Len(q.line) = lineMaxLen - 1
                  THEN [q EXCEPT !.out = @ \o q.line \o <<"=">> \o CRLF,
                                 !.line = <<>>]
                  ELSE q
         IN  [r EXCEPT !.line = @ \o <<QPChar(c)>>, !.cr = FALSE]
    ELSE IF c = 10 \/ c = 13
    THEN IF q.cr /\ c = 10
         THEN [q EXCEPT !.cr = FALSE]
         ELSE LET r == QPCheckLastByte(q)
              IN  [r EXCEPT !.out = @ \o r.line \o CRLF, !.line = <<>>,
                            !.cr = (c = 13)]
    ELSE QPEncodeByte(q, c)

RECURSIVE QPWrite(_, _)
QPWrite(q, s) ==
    IF Len(s) = 0 THEN q ELSE QPWrite(QPWriteByte(q, s[1]), Tail(s))

\* What quotedprintable.NewWriter(buf) has written to buf after Write(s) and
\* Close().
QuotedPrintableEncode(s) ==
    LET q == QPCheckLastByte(QPWrite([out |-> <<>>, line |-> <<>>, cr |-> FALSE], s))
    IN  q.out \o q.line

\* bytes.Buffer: Reset empties the buffer, a write appends to it.
BufferReset(buf) == <<>>

BufferWrite(buf, p) == buf \o p

(***************************************************************************)
(* The EmailBuilder.  A builder value b is the record of its fields.       *)
(***************************************************************************)

\* NewEmailBuilder()
NewEmailBuilder ==
    [Headers |-> NewHeader, Boundary |-> <<>>,
     PlainHeaders |-> NewHeader, Plain |-> <<>>,
     HTMLHeaders |-> NewHeader, HTML |-> <<>>]

\* BoundaryString with the precedence reversed: a non-empty Boundary field
\* wins over the Content-Type header.
BoundaryStringFieldFirst(b) ==
    LET contentType == HeaderGet(b.Headers, KeyContentType)
        i0 == Index(contentType, pattern)
        i  == i0 + Len(pattern)
        j  == Index(From(contentType, i), Quote)
        boundary == SubSeq(contentType, i + 1, i + j)
    IN  IF b.Boundary # <<>> THEN [boundary |-> b.Boundary, err |-> Nil]
        ELSE IF contentType # <<>>
        THEN IF i0 = -1 THEN [boundary |-> <<>>, err |-> ErrBeginning]
             ELSE IF j = -1 THEN [boundary |-> <<>>, err |-> ErrEnd]
             ELSE IF boundary = <<>> THEN [boundary |-> <<>>, err |-> ErrEmpty]
             ELSE [boundary |-> boundary, err |-> Nil]
        ELSE [boundary |-> DefaultBoundary, err |-> Nil]

\* BoundaryString: the boundary and the error it returns.
BoundaryString(b) ==
    LET contentType == HeaderGet(b.Headers, KeyContentType)
        i0 == Index(contentType, pattern)
        i  == i0 + Len(pattern)
        j  == Index(From(contentType, i), Quote)
        boundary == SubSeq(contentType, i + 1, i + j)
    IN  IF contentType # <<>>
        THEN IF i0 = -1 THEN [boundary |-> <<>>, err |-> ErrBeginning]
             ELSE IF j = -1 THEN [boundary |-> <<>>, err |-> ErrEnd]
             ELSE IF boundary = <<>> THEN [boundary |-> <<>>, err |-> ErrEmpty]
             ELSE [boundary |-> boundary, err |-> Nil]
        ELSE IF b.Boundary = <<>>
             THEN [boundary |-> DefaultBoundary, err |-> Nil]
             ELSE [boundary |-> b.Boundary, err |-> Nil]

\* The extraHeaders of writePartPlain: the default Content-Type.
PlainExtraHeaders(headers) ==
    IF HeaderGet(headers, KeyContentType) = <<>>
    THEN HeaderSet(NewHeader, KeyContentType, TextPlainCharset \o Utf8)
    ELSE NewHeader

\* The extraHeaders of writePartHTML: the default Content-Type.
HTMLExtraHeaders(headers) ==
    IF HeaderGet(headers, KeyContentType) = <<>>
    THEN HeaderSet(NewHeader, KeyContentType, TextHTMLCharset \o Utf8)
    ELSE NewHeader

\* The writes of a part: the opening delimiter line when boundary is not "",
\* the part's headers, its default headers, a blank line, the buffer and a
\* line end.
writePart(boundary, headers, extraHeaders, buf) ==
    (IF boundary # <<>> THEN <<Dashes \o boundary>> \o writeln ELSE <<>>)
    \o HeaderWrite(headers) \o HeaderWrite(extraHeaders)
    \o writeln \o <<buf>> \o writeln

\* The writes of b.writePartPlain(w, boundary, headers)
writePartPlain(b, boundary, headers) ==
    writePart(boundary, headers, PlainExtraHeaders(headers), b.Plain)

\* The writes of b.writePartHTML(w, boundary, headers)
writePartHTML(b, boundary, headers) ==
    writePart(boundary, headers, HTMLExtraHeaders(headers), b.HTML)

\* The extraHeaders of Write: MIME-Version and Date when Headers.Get finds
\* none, and the multipart Content-Type when the message is multipart and
\* Headers.Get finds no Content-Type.
WriteExtraHeaders(b, now, multipart, boundary) ==
    LET e0 == NewHeader
        e1 == IF HeaderGet(b.Headers, KeyMIMEVersion) = <<>>
              THEN HeaderSet(e0, KeyMIMEVersion, ValMIMEVersion) ELSE e0
        e2 == IF HeaderGet(b.Headers, KeyDate) = <<>>
              THEN HeaderSet(e1, KeyDate, now) ELSE e1
        e3 == IF multipart /\ HeaderGet(b.Headers, KeyContentType) = <<>>
              THEN HeaderSet(e2, KeyContentType, MultipartContentType(boundary))
              ELSE e2
    IN  e3

\* The two header blocks merged into one map and written as one sorted
\* list.
writeTopHeadersMerged(headers, extraHeaders) ==
    HeaderWrite([k \in DOMAIN headers \cup DOMAIN extraHeaders |->
                    IF k \in DOMAIN headers THEN headers[k] ELSE extraHeaders[k]])

\* The writes of the two header blocks Write starts with: b.Headers, then
\* extraHeaders.
writeTopHeaders(headers, extraHeaders) ==
    HeaderWrite(headers) \o HeaderWrite(extraHeaders)

\* The multipart body without its closing delimiter.
writeMultipartUnclosed(b, boundary) ==
    writeln
    \o writePartPlain(b, boundary, b.PlainHeaders)
    \o writePartHTML(b, boundary, b.HTMLHeaders)

\* The multipart body with the HTML part written before the plain part.
writeMultipartHTMLFirst(b, boundary) ==
    writeln
    \o writePartHTML(b, boundary, b.HTMLHeaders)
    \o writePartPlain(b, boundary, b.PlainHeaders)
    \o <<Dashes \o boundary \o Dashes>>

\* The writes of the body of a multipart message: a blank line, the plain
\* part, the HTML part and the closing delimiter, which no line end follows.
writeMultipart(b, boundary) ==
    writeln
    \o writePartPlain(b, boundary, b.PlainHeaders)
    \o writePartHTML(b, boundary, b.HTMLHeaders)
    \o <<Dashes \o boundary \o Dashes>>

\* The single part being the plain part whatever the buffers hold.
writeSinglePartPlainAlways(b, html) ==
    writePartPlain(b, <<>>, b.PlainHeaders)

\* The single part written after a blank line of its own.
writeSinglePartAfterBlank(b, html) ==
    writeln
    \o (IF html THEN writePartHTML(b, <<>>, b.HTMLHeaders)
        ELSE writePartPlain(b, <<>>, b.PlainHeaders))

\* The writes of the body of a message that is not multipart: the HTML part
\* when the HTML buffer is not empty, the plain part otherwise, with no
\* boundary.
writeSinglePart(b, html) ==
    IF html THEN writePartHTML(b, <<>>, b.HTMLHeaders)
    ELSE writePartPlain(b, <<>>, b.PlainHeaders)

\* Write resolving the boundary for every message.
ResolvesBoundaryAlways(multipart) == TRUE

\* Whether Write resolves the boundary: only for a multipart message.
ResolvesBoundary(multipart) == multipart

\* Write storing the MIME-Version header in b.Headers instead of in its
\* local extraHeaders.
BuilderAfterWriteStoresHeaders(b) ==
    [b EXCEPT !.Headers = IF HeaderGet(@, KeyMIMEVersion) = <<>>
                          THEN HeaderSet(@, KeyMIMEVersion, ValMIMEVersion) ELSE @]

\* The builder as Write leaves it: Write assigns to no field of b.
BuilderAfterWrite(b) == b

\* Write resolving the boundary only after it has written b.Headers.
WriteHeadersFirst(b, now, failAt) ==
    LET text == Len(b.Plain) > 0
        html == Len(b.HTML) > 0
        multipart == text /\ html
        bo == IF ResolvesBoundary(multipart) THEN BoundaryString(b)
              ELSE [boundary |-> <<>>, err |-> Nil]
        extraHeaders == WriteExtraHeaders(b, now, multipart, bo.boundary)
        s1 == WriteAll(NewSink(failAt), HeaderWrite(b.Headers))
    IN  [b  |-> BuilderAfterWrite(b),
         st |-> IF s1.err = Nil /\ bo.err # Nil THEN [s1 EXCEPT !.err = bo.err]
                ELSE WriteAll(s1,
                        HeaderWrite(extraHeaders)
                        \o (IF multipart THEN writeMultipart(b, bo.boundary)
                            ELSE writeSinglePart(b, html)))]

\* b.Write(w) at time now, on a sink whose Write call number failAt fails
\* (0: none): the builder and the sink afterwards, st.err the error returned.
\* The boundary is resolved, and its error returned, before the first write.
Write(b, now, failAt) ==
    LET text == Len(b.Plain) > 0
        html == Len(b.HTML) > 0
        multipart == text /\ html
        bo == IF ResolvesBoundary(multipart) THEN BoundaryString(b)
              ELSE [boundary |-> <<>>, err |-> Nil]
        extraHeaders == WriteExtraHeaders(b, now, multipart, bo.boundary)
        st0 == NewSink(failAt)
    IN  [b  |-> BuilderAfterWrite(b),
         st |-> IF bo.err # Nil THEN [st0 EXCEPT !.err = bo.err]
                ELSE WriteAll(st0,
                        writeTopHeaders(b.Headers, extraHeaders)
                        \o (IF multipart THEN writeMultipart(b, bo.boundary)
                            ELSE writeSinglePart(b, html)))]

(***************************************************************************)
(* The state: the fields of one builder, and what the most recent call     *)
(* showed: its name (op), the input of an encode call (arg), the result of *)
(* a BoundaryString call (ret), and the sink of a Write call with the      *)
(* error Write returned (w).                                               *)
(***************************************************************************)
VARIABLES Headers, Boundary, PlainHeaders, Plain, HTMLHeaders, HTML,
          op, arg, ret, w

builder == <<Headers, Boundary, PlainHeaders, Plain, HTMLHeaders, HTML>>

vars == <<Headers, Boundary, PlainHeaders, Plain, HTMLHeaders, HTML,
          op, arg, ret, w>>

\* The builder value of the current state.
self ==
    [Headers |-> Headers, Boundary |-> Boundary,
     PlainHeaders |-> PlainHeaders, Plain |-> Plain,
     HTMLHeaders |-> HTMLHeaders, HTML |-> HTML]

NoRet == [boundary |-> <<>>, err |-> Nil]

\* What a call that is neither Write nor BoundaryString leaves to observe.
Observe(name, input) ==
    /\ op' = name
    /\ arg' = input
    /\ ret' = NoRet
    /\ w' = NewSink(0)

(***************************************************************************)
(* Bounds and inputs                                                       *)
(***************************************************************************)

\* The longest input of an encode call.
MaxInputLen == 1

\* The longest boundary token inside a caller-set Content-Type.
MaxTokenLen == 1

\* The largest number of the sink's Write call that is made to fail.
MaxFailAt == 45

\* The bytes of the inputs of the encode calls: "H" and a byte above 127.
InputBytes == {72, 195}

RECURSIVE SeqsUpTo(_, _)
SeqsUpTo(S, n) ==
    IF n = 0 THEN {<<>>}
    ELSE LET shorter == SeqsUpTo(S, n - 1)
         IN  shorter \cup { Append(q, x) : q \in shorter, x \in S }

Inputs == SeqsUpTo(InputBytes, MaxInputLen)

\* The boundary tokens a caller puts in a Content-Type: "x", "xx", ...
Tokens == SeqsUpTo({"x"}, MaxTokenLen) \ {<<>>}

From1 == <<"h", "e", "l", "l", "o", "@", "e", "x", "a", "m", "p", "l", "e", ".", "c", "o", "m">>

Now1 == <<"M", "o", "n", ",", " ", "0", "2", " ", "M", "a", "y", " ", "2", "0", "2", "2", " ", "1", "6", ":", "3", "8", ":", "2", "8", " ", "+", "0", "2", "0", "0">>

Now2 == <<"M", "o", "n", ",", " ", "0", "2", " ", "M", "a", "y", " ", "2", "0", "2", "2", " ", "1", "9", ":", "5", "1", ":", "1", "7", " ", "+", "0", "2", "0", "0">>

\* The values of time.Now().Format(time.RFC1123Z) at the Write calls.
Clock == {Now1, Now2}

TextPlain == <<"t", "e", "x", "t", "/", "p", "l", "a", "i", "n">>

MultipartAlternative == <<"m", "u", "l", "t", "i", "p", "a", "r", "t", "/", "a", "l", "t", "e", "r", "n", "a", "t", "i", "v", "e", ";", " ">>

\* The Content-Type values a caller stores in Headers: the empty string, one
\* with no boundary parameter, one whose boundary has no closing quote, one
\* whose boundary is empty, and well-formed ones, the last followed by a
\* second quoted parameter.
ContentTypes ==
    {<<>>, TextPlain,
     MultipartAlternative \o pattern \o <<"x">>,
     MultipartAlternative \o pattern \o Quote}
    \cup { MultipartAlternative \o pattern \o t \o Quote : t \in Tokens }
    \cup { pattern \o t \o Quote \o <<";", " ", "a", "=">> \o Quote \o <<"b">> \o Quote :
             t \in Tokens }

\* The values of the Boundary field.
Boundaries == {<<>>, <<"a", "b", "c", "1", "2", "3">>}

Charsets == {<<"i", "s", "o", "-", "8", "8", "5", "9", "-", "1">>}

(***************************************************************************)
(* The operations                                                          *)
(***************************************************************************)

Init ==
    /\ Headers = NewEmailBuilder.Headers
    /\ Boundary = NewEmailBuilder.Boundary
    /\ PlainHeaders = NewEmailBuilder.PlainHeaders
    /\ Plain = NewEmailBuilder.Plain
    /\ HTMLHeaders = NewEmailBuilder.HTMLHeaders
    /\ HTML = NewEmailBuilder.HTML
    /\ op = "NewEmailBuilder"
    /\ arg = <<>>
    /\ ret = NoRet
    /\ w = NewSink(0)

\* b.SetFrom(from)
SetFrom(from) ==
    /\ Headers' = HeaderSet(Headers, KeyFrom, from)
    /\ UNCHANGED <<Boundary, PlainHeaders, Plain, HTMLHeaders, HTML>>
    /\ Observe("Set", <<>>)

\* b.Headers.Set(key, value), by the caller
HeadersSet(key, value) ==
    /\ Headers' = HeaderSet(Headers, key, value)
    /\ UNCHANGED <<Boundary, PlainHeaders, Plain, HTMLHeaders, HTML>>
    /\ Observe("Set", <<>>)

\* b.Boundary = boundary, by the caller
SetBoundary(boundary) ==
    /\ Boundary' = boundary
    /\ UNCHANGED <<Headers, PlainHeaders, Plain, HTMLHeaders, HTML>>
    /\ Observe("Set", <<>>)

\* b.SetPlainCharset(s)
SetPlainCharset(s) ==
    /\ PlainHeaders' = HeaderSet(PlainHeaders, KeyContentType, TextPlainCharset \o s)
    /\ UNCHANGED <<Headers, Boundary, Plain, HTMLHeaders, HTML>>
    /\ Observe("Set", <<>>)

\* b.SetHTMLCharset(s)
SetHTMLCharset(s) ==
    /\ HTMLHeaders' = HeaderSet(HTMLHeaders, KeyContentType, TextHTMLCharset \o s)
    /\ UNCHANGED <<Headers, Boundary, PlainHeaders, Plain, HTML>>
    /\ Observe("Set", <<>>)

\* b.PlainHeaders.Set(key, value), by the caller
PlainHeadersSet(key, value) ==
    /\ PlainHeaders' = HeaderSet(PlainHeaders, key, value)
    /\ UNCHANGED <<Headers, Boundary, Plain, HTMLHeaders, HTML>>
    /\ Observe("Set", <<>>)

\* b.HTMLHeaders.Set(key, value), by the caller
HTMLHeadersSet(key, value) ==
    /\ HTMLHeaders' = HeaderSet(HTMLHeaders, key, value)
    /\ UNCHANGED <<Headers, Boundary, PlainHeaders, Plain, HTML>>
    /\ Observe("Set", <<>>)

\* A part's buffer written without the reset.
EncodedBufferNoReset(buf, encoded) == BufferWrite(buf, encoded)

\* The buffer of a part after an encode call: reset, then the encoder's
\* output written to it.
EncodedBuffer(buf, encoded) == BufferWrite(BufferReset(buf), encoded)

\* b.EncodeBase64Plain(s)
EncodeBase64Plain(s) ==
    /\ Plain' = EncodedBuffer(Plain, Base64Encode(s))
    /\ PlainHeaders' = HeaderSet(PlainHeaders, KeyContentTransferEncoding, ValBase64)
    /\ UNCHANGED <<Headers, Boundary, HTMLHeaders, HTML>>
    /\ Observe("EncodeBase64Plain", s)

\* b.EncodeBase64HTML(s)
EncodeBase64HTML(s) ==
    /\ HTML' = EncodedBuffer(HTML, Base64Encode(s))
    /\ HTMLHeaders' = HeaderSet(HTMLHeaders, KeyContentTransferEncoding, ValBase64)
    /\ UNCHANGED <<Headers, Boundary, PlainHeaders, Plain>>
    /\ Observe("EncodeBase64HTML", s)

\* b.EncodeQuotedPlain(s)
EncodeQuotedPlain(s) ==
    /\ Plain' = EncodedBuffer(Plain, QuotedPrintableEncode(s))
    /\ PlainHeaders' = HeaderSet(PlainHeaders, KeyContentTransferEncoding, ValQuotedPrintable)
    /\ UNCHANGED <<Headers, Boundary, HTMLHeaders, HTML>>
    /\ Observe("EncodeQuotedPlain", s)

\* b.EncodeQuotedHTML(s)
EncodeQuotedHTML(s) ==
    /\ HTML' = EncodedBuffer(HTML, QuotedPrintableEncode(s))
    /\ HTMLHeaders' = HeaderSet(HTMLHeaders, KeyContentTransferEncoding, ValQuotedPrintable)
    /\ UNCHANGED <<Headers, Boundary, PlainHeaders, Plain>>
    /\ Observe("EncodeQuotedHTML", s)

\* b.BoundaryString()
CallBoundaryString ==
    /\ ret' = BoundaryString(self)
    /\ op' = "BoundaryString"
    /\ arg' = <<>>
    /\ w' = NewSink(0)
    /\ UNCHANGED builder

\* b.Write(w) on a fresh sink
CallWrite(now, failAt) ==
    LET r == Write(self, now, failAt)
    IN  /\ Headers' = r.b.Headers
        /\ Boundary' = r.b.Boundary
        /\ PlainHeaders' = r.b.PlainHeaders
        /\ Plain' = r.b.Plain
        /\ HTMLHeaders' = r.b.HTMLHeaders
        /\ HTML' = r.b.HTML
        /\ w' = r.st
        /\ op' = "Write"
        /\ arg' = now
        /\ ret' = NoRet

(***************************************************************************)
(* Specifications.  Each draws the calls and their inputs from the part of *)
(* the builder it is about; the operations are the same in all of them.    *)
(***************************************************************************)

\* A well-formed Content-Type with the boundary "x".
ContentTypeX == MultipartAlternative \o pattern \o <<"x">> \o Quote

\* What a caller stores in the top-level headers in Spec.
MainHeaderInputs ==
    { <<KeyContentType, <<>>>>,
      <<KeyContentType, TextPlain>>,
      <<KeyContentType, ContentTypeX>>,
      <<KeyMIMEVersion, <<"1", ".", "1">>>>,
      <<<<"d", "a", "t", "e">>, <<>>>>,
      <<<<"d", "a", "t", "e">>, Now1>> }

\* Spec: the headers of the message and of its parts, and Write.
Next ==
    \/ \E from \in {From1} : SetFrom(from)
    \/ \E kv \in MainHeaderInputs : HeadersSet(kv[1], kv[2])
    \/ \E s \in Charsets : SetPlainCharset(s)
    \/ PlainHeadersSet(KeyContentType, <<>>)
    \/ HTMLHeadersSet(KeyContentType, <<>>)
    \/ \E s \in {<<72>>} : EncodeBase64Plain(s)
    \/ \E s \in {<<72>>} : EncodeQuotedHTML(s)
    \/ \E now \in Clock : CallWrite(now, 0)

Spec == Init /\ [][Next]_vars

\* SpecBoundary: the Content-Type header, the Boundary field and the
\* presence of the two parts; BoundaryString and Write.
NextBoundary ==
    \/ \E v \in ContentTypes : HeadersSet(KeyContentType, v)
    \/ \E x \in Boundaries : SetBoundary(x)
    \/ \E s \in {<<>>, <<72>>} : EncodeBase64Plain(s)
    \/ \E s \in {<<>>, <<72>>} : EncodeQuotedHTML(s)
    \/ CallBoundaryString
    \/ \E now \in {Now1} : CallWrite(now, 0)

SpecBoundary == Init /\ [][NextBoundary]_vars

\* SpecEncode: the encode calls on both parts, in any order.
NextEncode ==
    \/ \E s \in Inputs : EncodeBase64Plain(s)
    \/ \E s \in Inputs : EncodeBase64HTML(s)
    \/ \E s \in Inputs : EncodeQuotedPlain(s)
    \/ \E s \in Inputs : EncodeQuotedHTML(s)
    \/ \E s \in Charsets : SetPlainCharset(s)
    \/ \E s \in Charsets : SetHTMLCharset(s)

SpecEncode == Init /\ [][NextEncode]_vars

\* SpecSink: Write on a sink one of whose Write calls fails.
NextSink ==
    \/ \E from \in {From1} : SetFrom(from)
    \/ \E s \in {<<72>>} : EncodeBase64Plain(s)
    \/ \E s \in {<<72>>} : EncodeQuotedHTML(s)
    \/ \E failAt \in 0..MaxFailAt : CallWrite(Now1, failAt)

SpecSink == Init /\ [][NextSink]_vars

(***************************************************************************)
(* Reading a written message: its lines, and the key of a header line.     *)
(***************************************************************************)

\* The lines of a text: what "\r\n" separates.  The last line is what follows
\* the last "\r\n", empty when the text ends with one.
RECURSIVE Lines(_)
Lines(text) ==
    LET i == Index(text, CRLF)
    IN  IF i = -1 THEN <<text>>
        ELSE <<SubSeq(text, 1, i)>> \o Lines(From(text, i + 2))

HasPrefix(s, prefix) ==
    Len(s) >= Len(prefix) /\ SubSeq(s, 1, Len(prefix)) = prefix

\* The header line of a key and a value.
HeaderLine(key, value) == key \o ColonSpace \o value

\* The key of a header line: what precedes its first ": ".
LineKey(line) ==
    LET i == Index(line, ColonSpace)
    IN  IF i = -1 THEN <<>> ELSE SubSeq(line, 1, i)

\* The positions of the lines of L that satisfy a test.
Where(L, Test(_)) == { i \in 1..Len(L) : Test(L[i]) }

\* The lines of L at the positions P, in order.
RECURSIVE Pick(_, _)
Pick(L, P) ==
    IF P = {} THEN <<>>
    ELSE LET i == CHOOSE x \in P : \A y \in P : x <= y
         IN  <<L[i]>> \o Pick(L, P \ {i})

\* The message the last Write call wrote, as lines.
Out == Lines(w.buf)

\* The last call was a Write that returned no error.
Written == op = "Write" /\ w.err = Nil

Multipart == Plain # <<>> /\ HTML # <<>>

CTKey == CanonicalMIMEHeaderKey(KeyContentType)

BoundaryErrors == {ErrBeginning, ErrEnd, ErrEmpty}

\* The boundary parameter of a Content-Type value ct, read off its text: the
\* tokens t such that the first boundary=" of ct is followed by t and a
\* closing quote, t holding no quote.  (Empty when ct has no such parameter;
\* never more than one token.)
BoundaryParam(ct) ==
    LET n == Len(pattern)
        starts == { i \in 0..(Len(ct) - n) : SubSeq(ct, i + 1, i + n) = pattern }
        first == { i \in starts : \A i2 \in starts : i <= i2 }
    IN  { SubSeq(ct, i + n + 1, k - 1) :
            <<i, k>> \in { x \in first \X (1..Len(ct)) :
                             /\ x[2] > x[1] + n
                             /\ ct[x[2]] = "\""
                             /\ \A m \in (x[1] + n + 1)..(x[2] - 1) : ct[m] # "\"" } }

\* The token the precedence of the boundary gives for the current builder:
\* the non-empty boundary parameter of the Content-Type header; with no
\* Content-Type header, the Boundary field if it is not empty, and the
\* default token if it is.
PrecedenceTokens ==
    IF CTKey \in DOMAIN Headers
    THEN { t \in BoundaryParam(Headers[CTKey]) : t # <<>> }
    ELSE IF Boundary # <<>> THEN {Boundary} ELSE {DefaultBoundary}

\* The lines of the written message that begin with "--".
DelimiterLines == Pick(Out, Where(Out, LAMBDA l : HasPrefix(l, Dashes)))

(***************************************************************************)
(* C1  BoundaryString resolves the boundary in a fixed precedence: the     *)
(* non-empty boundary="T" of the top-level Content-Type wins, also over a  *)
(* different Boundary field; with no Content-Type header the Boundary      *)
(* field is returned if it is not empty, and the default token             *)
(* 110000000000863a1705ddeb4f86 otherwise.  The delimiter lines of a       *)
(* multipart Write use exactly that token: two lines --T and a last line   *)
(* --T--.                                                                  *)
(***************************************************************************)
C1_BoundaryPrecedence ==
    \A t \in PrecedenceTokens :
        /\ op = "BoundaryString" => ret = [boundary |-> t, err |-> Nil]
        /\ (Written /\ Multipart) =>
              /\ DelimiterLines = <<Dashes \o t, Dashes \o t, Dashes \o t \o Dashes>>
              /\ Out[Len(Out)] = Dashes \o t \o Dashes

\* A multipart message written with the token of the Content-Type header
\* while the Boundary field holds another, non-empty token.
C1_Witness ==
    /\ Written /\ Multipart
    /\ Boundary # <<>>
    /\ CTKey \in DOMAIN Headers
    /\ \E t \in PrecedenceTokens : t # Boundary /\ Out[Len(Out)] = Dashes \o t \o Dashes

\* The line is a Content-Type header of a multipart/alternative message.
IsMultipartContentTypeLine(l) == HasPrefix(l, HeaderLine(CTKey, MultipartAlternative))

\* The caller stored a Content-Type with no parseable boundary parameter: no
\* boundary=" in it, no closing quote after it, or nothing between the quotes.
MalformedContentType ==
    /\ CTKey \in DOMAIN Headers
    /\ \A t \in BoundaryParam(Headers[CTKey]) : t = <<>>

C5_MalformedContentTypeFails ==
    MalformedContentType =>
        /\ op = "BoundaryString" => ret.err \in BoundaryErrors /\ ret.boundary = <<>>
        /\ (op = "Write" /\ Multipart) => w.err \in BoundaryErrors

(***************************************************************************)
(* C9  When Write fails on boundary resolution (both parts present, a      *)
(* top-level Content-Type without a parseable boundary), the top-level     *)
(* headers have already been written to the sink while no body byte has:   *)
(* the sink is left partially written.                                     *)
(***************************************************************************)
C9_HeadersWrittenBeforeFailure ==
    (op = "Write" /\ w.err \in BoundaryErrors) =>
        /\ w.buf # <<>>
        /\ \A k \in DOMAIN Headers :
              \E i \in 1..Len(Out) : Out[i] = HeaderLine(k, Headers[k])
        /\ \A i \in 1..Len(Out) : Out[i] \notin {Plain, HTML}

\* C9 as amended: when Write fails on boundary resolution, nothing at all has
\* been written to the sink, no header and no body byte: Write resolves the
\* boundary before its first write.
C9_NothingWrittenBeforeFailure ==
    (op = "Write" /\ w.err \in BoundaryErrors) => w.buf = <<>> /\ w.calls = 0

\* A Write of both parts that failed on the caller's Content-Type.
C9_Witness ==
    /\ op = "Write" /\ w.err \in BoundaryErrors
    /\ Multipart /\ MalformedContentType

\* The lines of L whose key is k, in order.
KeyLines(L, k) == Pick(L, Where(L, LAMBDA l : LineKey(l) = k))

\* The position of the first empty line of the lines L, which ends the
\* first run of header lines.
FirstBlank(L) == CHOOSE i \in 1..Len(L) : L[i] = <<>> /\ \A j \in 1..(i - 1) : L[j] # <<>>

\* The first run of header lines of a written message, and what follows its
\* empty line.
HeaderRun(L) == SubSeq(L, 1, FirstBlank(L) - 1)

BodyOf(L) == SubSeq(L, FirstBlank(L) + 1, Len(L))

\* The token of the first line of the body of a multipart message.
BodyToken(body) == From(body[1], Len(Dashes))

\* The second opening delimiter line of the body of a multipart message.
SecondOpener(body) ==
    LET opener == Dashes \o BodyToken(body)
    IN  CHOOSE i \in 2..Len(body) :
            body[i] = opener /\ \A j \in 2..(i - 1) : body[j] # opener

\* The lines part of a body are one part: header lines, among them every
\* header of headers, an empty line, and the buffer.
IsPart(part, headers, buf) ==
    LET n == Len(part)
    IN  /\ n >= 3
        /\ part[n] = buf
        /\ part[n - 1] = <<>>
        /\ \A i \in 1..(n - 2) : LineKey(part[i]) # <<>>
        /\ \A k \in DOMAIN headers :
              \E i \in 1..(n - 2) : part[i] = HeaderLine(k, headers[k])

\* The lines of the plain part and of the HTML part of a multipart body.
FirstPart(body) == SubSeq(body, 2, SecondOpener(body) - 1)

SecondPart(body) == SubSeq(body, SecondOpener(body) + 1, Len(body) - 1)

BodyOrder(body) ==
    LET opener == Dashes \o BodyToken(body)
    IN  /\ HasPrefix(body[1], Dashes) /\ BodyToken(body) # <<>>
        /\ Cardinality(Where(body, LAMBDA l : l = opener)) = 2
        /\ Where(body, LAMBDA l : l = opener \o Dashes) = {Len(body)}
        /\ IsPart(FirstPart(body), PlainHeaders, Plain)
        /\ IsPart(SecondPart(body), HTMLHeaders, HTML)

(***************************************************************************)
(* C2  When both buffers are non-empty and Write succeeds, the body has    *)
(* exactly two opener lines --B and exactly one closer --B--, in the       *)
(* order: opener, plain part headers, blank line, plain buffer, opener,    *)
(* HTML part headers, blank line, HTML buffer, closer; the plain part is   *)
(* before the HTML part and no line end follows the closer.                *)
(***************************************************************************)
C2_MultipartBodyOrder ==
    (Written /\ Multipart) => \A body \in {BodyOf(Out)} : BodyOrder(body)

\* A multipart message whose plain part has two headers of its own.
C2_Witness ==
    /\ Written /\ Multipart
    /\ Cardinality(DOMAIN PlainHeaders) = 2
    /\ Plain # HTML

\* The one header line a block must hold for the key k: the caller's when
\* headers holds k, the derived one otherwise.
OnlyLine(headers, k, derived) ==
    <<HeaderLine(k, IF k \in DOMAIN headers THEN headers[k] ELSE derived)>>

MIMEKey == CanonicalMIMEHeaderKey(KeyMIMEVersion)

DateKey == CanonicalMIMEHeaderKey(KeyDate)

DerivedOnlyIfAbsent(run, body) ==
    /\ KeyLines(run, MIMEKey) = OnlyLine(Headers, MIMEKey, ValMIMEVersion)
    /\ KeyLines(run, DateKey) = OnlyLine(Headers, DateKey, arg)
    /\ Multipart =>
          /\ KeyLines(run, CTKey) =
                OnlyLine(Headers, CTKey, MultipartContentType(BodyToken(body)))
          /\ KeyLines(FirstPart(body), CTKey) =
                OnlyLine(PlainHeaders, CTKey, TextPlainCharset \o Utf8)
          /\ KeyLines(SecondPart(body), CTKey) =
                OnlyLine(HTMLHeaders, CTKey, TextHTMLCharset \o Utf8)
    /\ ~Multipart =>
          KeyLines(run, CTKey) =
             (IF CTKey \in DOMAIN Headers
              THEN <<HeaderLine(CTKey, Headers[CTKey])>> ELSE <<>>)
             \o (IF HTML # <<>>
                 THEN OnlyLine(HTMLHeaders, CTKey, TextHTMLCharset \o Utf8)
                 ELSE OnlyLine(PlainHeaders, CTKey, TextPlainCharset \o Utf8))

(***************************************************************************)
(* C4  Write injects a derived header only if that name is absent from its *)
(* header set and never overwrites or duplicates a caller-set one: of      *)
(* MIME-Version, Date, the multipart Content-Type and a part's default     *)
(* Content-Type, each block holds exactly one line, the caller's when the  *)
(* caller stored a header of that name and the derived one when not.       *)
(***************************************************************************)
C4_DerivedOnlyIfAbsent ==
    Written => \A L \in {Out} : DerivedOnlyIfAbsent(HeaderRun(L), BodyOf(L))

\* The lines of a written message that are not Date header lines.
WithoutDate(text) == Pick(Lines(text), Where(Lines(text), LAMBDA l : LineKey(l) # DateKey))

(***************************************************************************)
(* C6  Write has no side effect on the builder: a Write call, successful   *)
(* or failed, leaves Headers, PlainHeaders, HTMLHeaders, Boundary and both *)
(* body buffers unchanged, so a Write that follows a Write returns the     *)
(* same error or writes the same output apart from the Date line.          *)
(***************************************************************************)
C6_WriteHasNoSideEffect ==
    [][op' = "Write" =>
          /\ builder' = builder
          /\ op = "Write" =>
                /\ w'.err = w.err
                /\ WithoutDate(w'.buf) = WithoutDate(w.buf)]_vars

\* A multipart message was written with a derived Date header.
C6_Witness ==
    /\ Written /\ Multipart
    /\ DateKey \notin DOMAIN Headers
    /\ Cardinality(DOMAIN Headers) = 2

\* The theorem-side reading of the top-level header lines: the first
\* lines are the caller's, one per stored header; the derived block is the
\* run of lines after them whose key is that of a derived header.
DerivedNames == {MIMEKey, DateKey} \cup (IF Multipart THEN {CTKey} ELSE {})

CallerBlock(L) == SubSeq(L, 1, Cardinality(DOMAIN Headers))

DerivedEnd(L) ==
    LET n == Cardinality(DOMAIN Headers)
    IN  CHOOSE m \in n..(FirstBlank(L) - 1) :
            /\ \A i \in (n + 1)..m : LineKey(L[i]) \in DerivedNames
            /\ m < FirstBlank(L) - 1 => LineKey(L[m + 1]) \notin DerivedNames

DerivedBlock(L) == SubSeq(L, Cardinality(DOMAIN Headers) + 1, DerivedEnd(L))

\* The keys of header lines are strictly increasing.
KeysIncrease(block) ==
    \A i \in 1..(Len(block) - 1) : StrLess(LineKey(block[i]), LineKey(block[i + 1]))

(***************************************************************************)
(* C10 (as stated)  Write emits the caller-set top-level headers and the   *)
(* derived headers as one header list sorted by canonical name: a derived  *)
(* header appears at its sorted position among the caller-set headers.     *)
(***************************************************************************)
C10_OneSortedList ==
    Written => \A L \in {Out} : KeysIncrease(CallerBlock(L) \o DerivedBlock(L))

(***************************************************************************)
(* C10 (amended)  Write emits the caller-set top-level headers first,      *)
(* each once, sorted by canonical name, and after them the derived headers *)
(* whose name the caller did not store, as a block of their own sorted by  *)
(* canonical name.                                                         *)
(***************************************************************************)
C10_TwoSortedBlocks ==
    Written =>
        \A L \in {Out} :
            /\ KeysIncrease(CallerBlock(L))
            /\ \A k \in DOMAIN Headers :
                  \E i \in 1..Len(CallerBlock(L)) : L[i] = HeaderLine(k, Headers[k])
            /\ KeysIncrease(DerivedBlock(L))
            /\ \A k \in DerivedNames \ DOMAIN Headers :
                  \E i \in 1..Len(DerivedBlock(L)) : LineKey(DerivedBlock(L)[i]) = k
            /\ Multipart => DerivedEnd(L) = FirstBlank(L) - 1

\* A message with a caller-set From and a derived Date, which sorts before
\* From, was written.
C10_Witness ==
    /\ Written
    /\ KeyFrom \in DOMAIN Headers
    /\ DateKey \notin DOMAIN Headers

CTEKey == CanonicalMIMEHeaderKey(KeyContentTransferEncoding)

\* What an encode call named name leaves in a part for the input s.
EncodingOf(name, s) ==
    IF name \in {"EncodeBase64Plain", "EncodeBase64HTML"}
    THEN [buf |-> Base64Encode(s), scheme |-> ValBase64]
    ELSE [buf |-> QuotedPrintableEncode(s), scheme |-> ValQuotedPrintable]

(***************************************************************************)
(* C7  After an encode call (base64 or quoted-printable) on one body part, *)
(* whatever calls came before it, that part's buffer holds only the        *)
(* encoding of the input of this call and the part's                       *)
(* Content-Transfer-Encoding header names the scheme of this call; the     *)
(* other part's buffer and headers are not changed by the call.            *)
(***************************************************************************)
C7_EncodeResetsPart ==
    [][/\ op' \in {"EncodeBase64Plain", "EncodeQuotedPlain"} =>
             /\ Plain' = EncodingOf(op', arg').buf
             /\ CTEKey \in DOMAIN PlainHeaders'
             /\ PlainHeaders'[CTEKey] = EncodingOf(op', arg').scheme
             /\ \A k \in DOMAIN PlainHeaders \ {CTEKey} :
                   k \in DOMAIN PlainHeaders' /\ PlainHeaders'[k] = PlainHeaders[k]
             /\ HTML' = HTML /\ HTMLHeaders' = HTMLHeaders
       /\ op' \in {"EncodeBase64HTML", "EncodeQuotedHTML"} =>
             /\ HTML' = EncodingOf(op', arg').buf
             /\ CTEKey \in DOMAIN HTMLHeaders'
             /\ HTMLHeaders'[CTEKey] = EncodingOf(op', arg').scheme
             /\ \A k \in DOMAIN HTMLHeaders \ {CTEKey} :
                   k \in DOMAIN HTMLHeaders' /\ HTMLHeaders'[k] = HTMLHeaders[k]
             /\ Plain' = Plain /\ PlainHeaders' = PlainHeaders]_vars

\* The plain part, whose charset was set before, was encoded with an empty
\* input while the HTML part holds a base64 encoding.
C7_Witness ==
    /\ op = "EncodeQuotedPlain" /\ arg = <<>>
    /\ CTKey \in DOMAIN PlainHeaders
    /\ HTML # <<>>
    /\ CTEKey \in DOMAIN HTMLHeaders /\ HTMLHeaders[CTEKey] = ValBase64

\* The sink after the same Write call on a sink that never fails.
Unfailing == Write(self, arg, 0).st

(***************************************************************************)
(* C8  If a write to the output sink fails during Write, Write performs no *)
(* further write to the sink after the failed one and returns that sink    *)
(* error; this holds for a failure at every write of the output: the sink  *)
(* then holds what the writes before the failed one wrote.                 *)
(***************************************************************************)
C8_SinkFailureAborts ==
    (op = "Write" /\ w.failAt > 0) =>
        \A full \in {Unfailing} :
            IF w.failAt <= full.calls
            THEN /\ w.err = ErrSink
                 /\ w.calls = w.failAt
                 /\ HasPrefix(full.buf, w.buf)
                 /\ w.buf # full.buf
            ELSE w = [full EXCEPT !.failAt = w.failAt]

\* The write of the closing delimiter of a multipart message, the last
\* write of Write, failed.
C8_Witness ==
    /\ op = "Write" /\ Multipart
    /\ w.err = ErrSink
    /\ w.calls = Unfailing.calls

\* The part a message that is not multipart holds: the HTML part when the
\* HTML buffer is not empty, the plain part otherwise.
ChosenHeaders == IF HTML # <<>> THEN HTMLHeaders ELSE PlainHeaders

ChosenBuffer == IF HTML # <<>> THEN HTML ELSE Plain

\* The lines of a written message from position first to its last line end.
PartFrom(L, first) == SubSeq(L, first, Len(L) - 1)

(***************************************************************************)
(* C11 (as stated)  In every output of Write, single-part as well as       *)
(* multipart, a blank line follows the top-level and derived headers       *)
(* before anything else is written, so that in single-part output the      *)
(* part's own headers come after that blank line and are followed by a     *)
(* second blank line before the body.                                      *)
(***************************************************************************)
C11_BlankLineAfterHeaders ==
    Written =>
        \A L \in {Out} :
            /\ L[DerivedEnd(L) + 1] = <<>>
            /\ ~Multipart =>
                  IsPart(PartFrom(L, DerivedEnd(L) + 2), ChosenHeaders, ChosenBuffer)

(***************************************************************************)
(* C11 (amended)  A blank line follows the top-level and derived headers   *)
(* only in multipart output, where the first delimiter line comes next.    *)
(* In single-part output the part's own headers follow the derived headers *)
(* directly, with no blank line between them, and the only blank line of   *)
(* the message is the one between the part's headers and the body, which   *)
(* a line end follows.                                                     *)
(***************************************************************************)
C11_BlankLineOnlyWhenMultipart ==
    Written =>
        \A L \in {Out} :
            /\ Multipart =>
                  /\ L[DerivedEnd(L) + 1] = <<>>
                  /\ HasPrefix(L[DerivedEnd(L) + 2], Dashes)
            /\ ~Multipart =>
                  /\ L[DerivedEnd(L) + 1] # <<>>
                  /\ IsPart(PartFrom(L, DerivedEnd(L) + 1), ChosenHeaders, ChosenBuffer)
                  /\ L[Len(L)] = <<>>

\* A message with a caller-set From and the plain part only was written.
C11_Witness ==
    /\ Written /\ ~Multipart
    /\ Plain # <<>>
    /\ KeyFrom \in DOMAIN Headers
    /\ CTKey \notin DOMAIN Headers

\* The text s holds the text sub.
Contains(s, sub) == Index(s, sub) # -1

\* The parameter boundary="B" of a token B.
BoundaryAttr(B) == pattern \o B \o Quote

HoldsBoundary(B) ==
    /\ Contains(w.buf, BoundaryAttr(B))
    /\ Contains(w.buf, Dashes \o B)
    /\ Contains(w.buf, Dashes \o B \o Dashes)

ChosenDefault ==
    HeaderLine(CTKey, IF HTML # <<>> THEN TextHTMLCharset \o Utf8 ELSE TextPlainCharset \o Utf8)

OtherDefault ==
    HeaderLine(CTKey, IF HTML # <<>> THEN TextPlainCharset \o Utf8 ELSE TextHTMLCharset \o Utf8)

\* The header lines of the headers of a part.
HeaderLinesOf(headers) == { HeaderLine(k, headers[k]) : k \in DOMAIN headers }

\* The lines part are the one part chosen: its headers, with no line that
\* is neither one of them nor its default Content-Type, a blank line, and
\* its buffer.
IsChosenPart(part) ==
    LET n == Len(part)
        lines == { part[i] : i \in 1..(n - 2) }
    IN  /\ n >= 3
        /\ part[n] = ChosenBuffer
        /\ part[n - 1] = <<>>
        /\ HeaderLinesOf(ChosenHeaders) \subseteq lines
        /\ lines \subseteq HeaderLinesOf(ChosenHeaders) \cup {ChosenDefault}
        /\ CTKey \notin DOMAIN ChosenHeaders => ChosenDefault \in lines
        /\ OtherDefault \notin lines

(***************************************************************************)
(* C13  When Write is not multipart it emits exactly one body part: the    *)
(* HTML part (HTMLHeaders and the HTML buffer) if the HTML buffer is       *)
(* non-empty, otherwise the plain part (PlainHeaders and the plain         *)
(* buffer), also when both buffers are empty, in which case the body is    *)
(* empty; the headers and default Content-Type of the part not chosen      *)
(* never appear in the output.                                             *)
(***************************************************************************)
C13_SinglePartChoice ==
    (Written /\ ~Multipart) =>
        \A L \in {Out} :
            /\ IsChosenPart(PartFrom(L, DerivedEnd(L) + 1))
            /\ L[Len(L)] = <<>>
            /\ \A i \in 1..DerivedEnd(L) : L[i] # OtherDefault

\* A message with the HTML part only was written by a builder whose plain
\* part has headers of its own.
C13_Witness ==
    /\ Written
    /\ HTML # <<>> /\ Plain = <<>>
    /\ DOMAIN PlainHeaders # {}
    /\ HeaderLinesOf(PlainHeaders) \cap HeaderLinesOf(HTMLHeaders) = {}

\* Lines i..j of L are header lines all, so that they lie in one header
\* block.
SameBlock(L, i, j) == \A k \in i..j : LineKey(L[k]) # <<>>

(***************************************************************************)
(* C14  In the output of every successful Write, no header name occurs     *)
(* more than once within one header block (a maximal run of header lines   *)
(* ended by a blank line: the top-level block and each part's block), for  *)
(* every combination of caller-set top-level headers, part headers and     *)
(* present parts, including a caller-set top-level Content-Type with a     *)
(* single part and a caller-set header whose value is the empty string.    *)
(***************************************************************************)
C14_NoDuplicateHeaderName ==
    Written =>
        \A L \in {Out} :
            \A i, j \in 1..Len(L) :
                (i < j /\ SameBlock(L, i, j)) => LineKey(L[i]) # LineKey(L[j])

====
